---- MODULE Spec2Model ----
(***************************************************************************)
(* A model of the binding registry and rebind state machine of             *)
(* src/KeyMapper.py (class KeyMapper): registration (addKey), setup, the   *)
(* rebind dialogue (getNewBinding, keyInterception, keyRelease, conflict   *)
(* resolution), bindKey / clearKeyEvent, profile save and load, device     *)
(* hot-plug and the per-frame update.                                      *)
(*                                                                         *)
(* Axis readings and dead zones are scaled by ten (0.3 is 3, 0.5 is 5),    *)
(* so that all arithmetic is on integers.                                  *)
(***************************************************************************)
EXTENDS Integers, Sequences, FiniteSets, TLC

KEYMAP_EVENT_RELEASED == 0
KEYMAP_EVENT_PRESSED == 1
KEYMAP_EVENT_PRESSED_AND_RELEASED == 2
KEYMAP_HELD_KEY == 3

\* Python's None, for bindings, device types, control names and devices.
None == "None"

\* The controls the application registers, in registration order.
KeyDescriptions == <<"left", "right", "jump">>
Controls == {KeyDescriptions[i] : i \in 1..Len(KeyDescriptions)}

\* Physical inputs: button names as the engine reports them, and one axis.
Buttons == {"space", "mouse1"}
Axes == {"left_x"}
AxisBindings == {"Axis.left_x"}
Bindings == Buttons \cup AxisBindings

\* binding.lower().startswith("axis.")
IsAxis(binding) == binding \in AxisBindings
\* binding[5:]
AxisStr(binding) == CASE binding = "Axis.left_x" -> "left_x"
\* str(axisID) of an InputDevice.Axis
AxisName(axis) == CASE axis = "left_x" -> "Axis.left_x"

\* One hot-pluggable device besides the keyboard and the mouse.
Devices == {"pad"}
DeviceClass(device) == CASE device = "pad" -> "gamepad"
DeviceAxes(device) == CASE device = "pad" -> Axes
\* The device that reports a button: the type keyInterception is given for
\* device buttons, and derives from the name for keyboard and mouse.
ButtonDeviceType(key) ==
    CASE key = "mouse1" -> "mouse"
      [] key = "face_a" -> "gamepad"
      [] OTHER -> "keyboard"
IsMouse(key) == key = "mouse1"

\* Axis readings in tenths, within [-1, 1]: a full deflection to the left, the
\* centre, and a deflection to the right between the two dead zones in use.
AxisValues == {-8, 0, 4}
deadZoneDefaultValue == 3
InterceptionDelta == 3
HalfThreshold == 5

Abs(x) == IF x < 0 THEN -x ELSE x
Max(a, b) == IF a > b THEN a ELSE b
Min(a, b) == IF a < b THEN a ELSE b

\* BitMask32.hasBitsInCommon, on masks of MaskBits bits.
MaskBits == 2
BitsOf(mask) == {i \in 0..(MaskBits - 1) : (mask \div (2 ^ i)) % 2 = 1}
hasBitsInCommon(a, b) == BitsOf(a) \cap BitsOf(b) # {}

VARIABLES
    phase,                          \* "register" until setup() has run, then "run"
    negativeValuesForNegativeAxes,  \* constructor flag
    keyOrder,                       \* self.keyOrder
    keyBindings,                    \* self.keyBindings: control -> KeyBinding
    keys,                           \* self.keys: control -> live value (tenths)
    events,                         \* eventObject's subscriptions for bound inputs
    axesInUse,                      \* self.axesInUse: sequence of AxisData
    devicesInUse,                   \* self.devicesInUse (its keys)
    attached,                       \* base.devices: the devices plugged in
    bindingDialogueVisible,         \* self.bindingDialogueVisible
    conflictDialogueShown,          \* not self.conflictDialogue.isHidden()
    keyBeingBound,                  \* self.keyBeingBound
    currentConflict,                \* self.currentConflict
    lastKeyInterception,            \* self.lastKeyInterception
    lastKeyInterceptionDeviceType,  \* self.lastKeyInterceptionDeviceType
    lastKeyInterceptionValue,       \* self.lastKeyInterceptionValue
    buttonThrowerOn,                \* buttonThrower has its generic events set
    deviceButtonThrowers,           \* self.deviceButtonThrowers (its keys)
    dataNPList,                     \* self.dataNPList: devices with a listener
    deviceAxisTestValues,           \* self.deviceAxisTestValues
    bindingFileData,                \* contents of the live binding file
    profileData,                    \* contents of the user profile file
    rebinds,                        \* rebind requests made so far
    saves,                          \* profile saves made so far
    loads,                          \* profile loads made so far
    callbacks,                      \* the save and load callbacks given to the constructor
    firstCallback,                  \* SaveLoadDummy.firstCallback
    saveCalls,                      \* the calls of the save callback by the last handler
    errorText,                      \* errorLabel["text"] while errorDialogue is shown
    raised,                         \* the exception that ended the run, if any
    accepted,                       \* the fixed events eventObject accepts for the manager
    risen                           \* the binary controls whose axis direction read above 0.5 at the last idle update

vars == <<phase, negativeValuesForNegativeAxes, keyOrder, keyBindings, keys,
          events, axesInUse, devicesInUse, attached,
          bindingDialogueVisible, conflictDialogueShown, keyBeingBound,
          currentConflict, lastKeyInterception, lastKeyInterceptionDeviceType,
          lastKeyInterceptionValue, buttonThrowerOn, deviceButtonThrowers,
          dataNPList, deviceAxisTestValues, bindingFileData, profileData,
          rebinds, saves, loads, callbacks, firstCallback, saveCalls,
          errorText, raised, accepted, risen>>

Registered == DOMAIN keyBindings
\* A file is the sequence of what was last saved to it, empty while the file
\* does not exist.
NoFile == <<>>

(***************************************************************************)
(* The data classes.                                                       *)
(***************************************************************************)
KeyBinding(binding, type, callback, deviceType, axisDirection, groupID) ==
    [binding |-> binding, type |-> type, callback |-> callback,
     deviceType |-> deviceType, axisDirection |-> axisDirection,
     groupID |-> groupID]

\* The callback argument of addKey: None, one callable, or a list of
\* callables and Nones.
NoCallback == [isList |-> FALSE, items |-> <<>>]
Callable == [isList |-> FALSE, items |-> <<"callable">>]
CallbackList(items) == [isList |-> TRUE, items |-> items]
IsNone(callback) == ~callback.isList /\ callback.items = <<>>

AxisData(axis, deadZone) ==
    [axis |-> axis, deadZone |-> deadZone,
     keyDescriptionPositive |-> None, keyDescriptionNegative |-> None,
     deviceTypePositive |-> None, deviceTypeNegative |-> None,
     devicePositive |-> None, deviceNegative |-> None]

\* The fields of the KeyMapper object, gathered in one record so that the
\* methods below can be written as functions from manager to manager and be
\* composed the way the code calls them.  saveCalls collects the calls of
\* the save callback a handler makes and is empty when the handler starts,
\* fired likewise the calls handleAxis makes of the controls' callbacks;
\* self.bindingFile is the live binding file between two handlers.
Manager ==
    [keyBindings |-> keyBindings, keys |-> keys, events |-> events,
     axesInUse |-> axesInUse, devicesInUse |-> devicesInUse,
     bindingDialogueVisible |-> bindingDialogueVisible,
     conflictDialogueShown |-> conflictDialogueShown,
     keyBeingBound |-> keyBeingBound, currentConflict |-> currentConflict,
     lastKeyInterception |-> lastKeyInterception,
     lastKeyInterceptionDeviceType |-> lastKeyInterceptionDeviceType,
     lastKeyInterceptionValue |-> lastKeyInterceptionValue,
     buttonThrowerOn |-> buttonThrowerOn,
     deviceButtonThrowers |-> deviceButtonThrowers,
     dataNPList |-> dataNPList,
     deviceAxisTestValues |-> deviceAxisTestValues,
     bindingFileData |-> bindingFileData, profileData |-> profileData,
     attached |-> attached, errorText |-> errorText, raised |-> raised,
     callbacks |-> callbacks, firstCallback |-> firstCallback,
     accepted |-> accepted,
     bindingFile |-> "live", saveCalls |-> <<>>, fired |-> <<>>]

\* The readings of the axes of the pad: what axis.value returns when a
\* method samples it.  The stick moves freely between two samplings, so each
\* method that samples is given the readings as an input.
Readings == [Axes -> AxisValues]
Sampling(m, reading) == [field \in (DOMAIN m) \cup {"reading"} |->
                           IF field = "reading" THEN reading ELSE m[field]]

\* The manager's fields after a method has run.
Becomes(m) ==
    /\ keyBindings' = m.keyBindings
    /\ accepted' = m.accepted
    /\ keys' = m.keys
    /\ events' = m.events
    /\ axesInUse' = m.axesInUse
    /\ devicesInUse' = m.devicesInUse
    /\ bindingDialogueVisible' = m.bindingDialogueVisible
    /\ conflictDialogueShown' = m.conflictDialogueShown
    /\ keyBeingBound' = m.keyBeingBound
    /\ currentConflict' = m.currentConflict
    /\ lastKeyInterception' = m.lastKeyInterception
    /\ lastKeyInterceptionDeviceType' = m.lastKeyInterceptionDeviceType
    /\ lastKeyInterceptionValue' = m.lastKeyInterceptionValue
    /\ buttonThrowerOn' = m.buttonThrowerOn
    /\ deviceButtonThrowers' = m.deviceButtonThrowers
    /\ dataNPList' = m.dataNPList
    /\ deviceAxisTestValues' = m.deviceAxisTestValues
    /\ bindingFileData' = m.bindingFileData
    /\ profileData' = m.profileData
    /\ attached' = m.attached
    /\ callbacks' = m.callbacks
    /\ firstCallback' = m.firstCallback
    /\ saveCalls' = m.saveCalls
    /\ errorText' = m.errorText
    /\ raised' = m.raised

NoEvents == [down |-> [b \in Bindings |-> None], up |-> [b \in Bindings |-> None]]

(***************************************************************************)
(* Devices in use.                                                         *)
(***************************************************************************)
\* What addUsedDevice returns: the device of that class already in use, else
\* the first attached one, else None.  The keyboard and the mouse are not
\* among base.devices.
UsedDevice(m, deviceType) ==
    IF \E d \in m.devicesInUse : DeviceClass(d) = deviceType
    THEN CHOOSE d \in m.devicesInUse : DeviceClass(d) = deviceType
    ELSE IF \E d \in m.attached : DeviceClass(d) = deviceType
         THEN CHOOSE d \in m.attached : DeviceClass(d) = deviceType
         ELSE None

addUsedDevice(m, deviceType) ==
    IF \E d \in m.devicesInUse : DeviceClass(d) = deviceType
    THEN m
    ELSE IF \E d \in m.attached : DeviceClass(d) = deviceType
         THEN LET device == UsedDevice(m, deviceType)
              IN [m EXCEPT
                   !.devicesInUse = @ \cup {device},
                   !.axesInUse = [i \in 1..Len(@) |->
                       [@[i] EXCEPT
                          !.devicePositive =
                              IF m.axesInUse[i].deviceTypePositive = deviceType
                              THEN device ELSE @,
                          !.deviceNegative =
                              IF m.axesInUse[i].deviceTypeNegative = deviceType
                              THEN device ELSE @]]]
         ELSE m

removeUsedDevice(m, deviceType) ==
    IF deviceType \in {"keyboard", "mouse", None}
    THEN m
    ELSE LET removal == {d \in m.devicesInUse : DeviceClass(d) = deviceType}
         IN [m EXCEPT
              !.axesInUse = [i \in 1..Len(@) |->
                  [@[i] EXCEPT
                     !.devicePositive = IF @ \in removal THEN None ELSE @,
                     !.deviceNegative = IF @ \in removal THEN None ELSE @]],
              !.devicesInUse = @ \ removal,
              !.dataNPList = SelectSeq(@, LAMBDA d : d \notin removal)]

(***************************************************************************)
(* clearKeyEvent and bindKey.                                              *)
(***************************************************************************)
\* One AxisData under the loop of clearKeyEvent over self.axesInUse.
ClearAxisDirection(axisData, bindingStr, direction) ==
    IF axisData.axis # bindingStr
    THEN axisData
    ELSE IF direction = -1 /\ axisData.keyDescriptionNegative # None
         THEN [axisData EXCEPT !.keyDescriptionNegative = None,
                               !.deviceTypeNegative = None,
                               !.deviceNegative = None]
         ELSE IF direction = 1 /\ axisData.keyDescriptionPositive # None
              THEN [axisData EXCEPT !.keyDescriptionPositive = None,
                                    !.deviceTypePositive = None,
                                    !.devicePositive = None]
              ELSE axisData

\* Variant of KeysToChange that finds no control for an axis.
KeysToChangeButtonsOnly(m, binding, direction) ==
    IF IsAxis(binding)
    THEN {}
    ELSE {kd \in DOMAIN m.keyBindings : m.keyBindings[kd].binding = binding}

\* keysToChange of clearKeyEvent: for an axis the controls the axis entries
\* name on the given side, for a button every control bound to it.
KeysToChange(m, binding, direction) ==
    IF IsAxis(binding)
    THEN {kd \in DOMAIN m.keyBindings :
            \E i \in 1..Len(m.axesInUse) :
               /\ m.axesInUse[i].axis = AxisStr(binding)
               /\ \/ direction = -1 /\ m.axesInUse[i].keyDescriptionNegative = kd
                  \/ direction = 1 /\ m.axesInUse[i].keyDescriptionPositive = kd}
    ELSE {kd \in DOMAIN m.keyBindings : m.keyBindings[kd].binding = binding}

RECURSIVE RemoveUnusedDevices(_, _)
RemoveUnusedDevices(m, deviceTypesToCheck) ==
    IF deviceTypesToCheck = {}
    THEN m
    ELSE LET deviceType == CHOOSE t \in deviceTypesToCheck : TRUE
             boundDeviceList == {m.keyBindings[kd].deviceType : kd \in DOMAIN m.keyBindings}
         IN RemoveUnusedDevices(
                IF deviceType \notin boundDeviceList
                THEN removeUsedDevice(m, deviceType) ELSE m,
                deviceTypesToCheck \ {deviceType})

PruneAxes(axes) ==
    SelectSeq(axes, LAMBDA axisData :
        \/ axisData.keyDescriptionPositive # None
        \/ axisData.keyDescriptionNegative # None)

\* Variant of IgnoreBinding that leaves the "-up" event subscribed.
IgnoreBindingPressOnly(ev, binding) ==
    [down |-> [ev.down EXCEPT ![binding] = None],
     up |-> ev.up]

\* eventObject.ignore(binding) and eventObject.ignore(binding + "-up").
IgnoreBinding(ev, binding) ==
    [down |-> [ev.down EXCEPT ![binding] = None],
     up |-> [ev.up EXCEPT ![binding] = None]]

clearKeyEvent(m, binding, direction) ==
    IF binding = None
    THEN m
    ELSE LET keysToChange == KeysToChange(m, binding, direction)
             deviceTypesToCheck == {m.keyBindings[kd].deviceType : kd \in keysToChange}
             cleared == [m EXCEPT
                 !.axesInUse = IF IsAxis(binding)
                          THEN [i \in 1..Len(@) |->
                                  ClearAxisDirection(@[i], AxisStr(binding), direction)]
                          ELSE @,
                 !.keyBindings = [kd \in DOMAIN @ |->
                           IF kd \in keysToChange
                           THEN [@[kd] EXCEPT !.binding = None, !.deviceType = None]
                           ELSE @[kd]]]
             released == RemoveUnusedDevices(cleared, deviceTypesToCheck)
         IN [released EXCEPT
               !.events = IgnoreBinding(@, binding),
               !.axesInUse = PruneAxes(@)]

\* eventObject.accept for the binding, by binding type (callbacks supplied).
AcceptBinding(ev, keyDescription, binding, type) ==
    IF binding = None
    THEN ev
    ELSE [down |-> IF type \in {KEYMAP_HELD_KEY, KEYMAP_EVENT_PRESSED,
                                KEYMAP_EVENT_PRESSED_AND_RELEASED}
                   THEN [ev.down EXCEPT ![binding] = keyDescription]
                   ELSE ev.down,
          up |-> IF type \in {KEYMAP_HELD_KEY, KEYMAP_EVENT_RELEASED,
                              KEYMAP_EVENT_PRESSED_AND_RELEASED}
                 THEN [ev.up EXCEPT ![binding] = keyDescription]
                 ELSE ev.up]

\* One AxisData named by the new binding: the side of axisDirection is given
\* to the control.
ClaimAxisDirection(axisData, keyDescription, device, deviceType, axisDirection) ==
    IF axisDirection > 0
    THEN [axisData EXCEPT !.keyDescriptionPositive = keyDescription,
                          !.devicePositive = device,
                          !.deviceTypePositive = deviceType]
    ELSE IF axisDirection < 0
         THEN [axisData EXCEPT !.keyDescriptionNegative = keyDescription,
                               !.deviceNegative = device,
                               !.deviceTypeNegative = deviceType]
         ELSE axisData

\* The axis part of bindKey: update the entries of the axis, or append one.
UpdateAxes(axes, keyDescription, binding, device, deviceType, axisDirection) ==
    LET axisStr == AxisStr(binding)
        foundAxis == \E i \in 1..Len(axes) : axes[i].axis = axisStr
    IN IF foundAxis
       THEN [i \in 1..Len(axes) |->
               IF axes[i].axis = axisStr
               THEN ClaimAxisDirection(axes[i], keyDescription, device,
                                       deviceType, axisDirection)
               ELSE axes[i]]
       ELSE Append(axes,
                   ClaimAxisDirection(AxisData(axisStr, deadZoneDefaultValue),
                                      keyDescription, device, deviceType,
                                      axisDirection))

\* A check of the callbacks that looks at the first of a pair only.
CallbackMissingFirstOnly(type, callback) ==
    CASE type = KEYMAP_HELD_KEY -> FALSE
      [] type = KEYMAP_EVENT_PRESSED -> IsNone(callback)
      [] type = KEYMAP_EVENT_RELEASED -> IsNone(callback)
      [] type = KEYMAP_EVENT_PRESSED_AND_RELEASED ->
            IF callback.isList
            THEN \/ Len(callback.items) < 2
                 \/ callback.items[1] = None
            ELSE IsNone(callback)

\* Whether bindKey raises "Callback missing ..." for the binding type.
CallbackMissing(type, callback) ==
    CASE type = KEYMAP_HELD_KEY -> FALSE
      [] type = KEYMAP_EVENT_PRESSED -> IsNone(callback)
      [] type = KEYMAP_EVENT_RELEASED -> IsNone(callback)
      [] type = KEYMAP_EVENT_PRESSED_AND_RELEASED ->
            IF callback.isList
            THEN \/ Len(callback.items) < 2
                 \/ callback.items[1] = None
                 \/ callback.items[2] = None
            ELSE IsNone(callback)

bindKey(m, keyDescription, binding, type, callback, deviceType, axisDirection) ==
    LET m1 == clearKeyEvent(m, binding, axisDirection)
        m2 == clearKeyEvent(m1, m1.keyBindings[keyDescription].binding,
                            m1.keyBindings[keyDescription].axisDirection)
        m3 == [m2 EXCEPT
                 !.events = AcceptBinding(@, keyDescription, binding, type),
                 !.keyBindings[keyDescription].binding = binding,
                 !.keyBindings[keyDescription].deviceType = deviceType,
                 !.keyBindings[keyDescription].axisDirection = axisDirection]
    IN IF CallbackMissing(type, callback)
       THEN [m2 EXCEPT !.raised = "Exception"]
       ELSE IF binding # None /\ deviceType # None
            THEN LET m4 == addUsedDevice(m3, deviceType)
                     device == UsedDevice(m3, deviceType)
                 IN IF IsAxis(binding)
                    THEN [m4 EXCEPT !.axesInUse =
                            UpdateAxes(@, keyDescription, binding,
                                       device, deviceType, axisDirection)]
                    ELSE m4
            ELSE m3

(***************************************************************************)
(* Saving and loading.                                                     *)
(***************************************************************************)
\* keySaveData and axisSaveData as saveKeyMapping builds them; the key
\* records come in the order of self.keyBindings, which is registration order.
SaveData(m) ==
    [keys |-> [i \in 1..Len(keyOrder) |->
                 <<keyOrder[i],
                   m.keyBindings[keyOrder[i]].binding,
                   m.keyBindings[keyOrder[i]].deviceType,
                   m.keyBindings[keyOrder[i]].axisDirection>>],
     axes |-> [i \in 1..Len(m.axesInUse) |->
                 <<m.axesInUse[i].axis, m.axesInUse[i].deadZone>>]]

\* The callbacks an application gives the constructor: callbacks that write
\* and read the files, SaveLoadDummy's pair, or None for both.
CallbackChoices == {"files", "dummy", "none"}

\* str(e) of the errors showErrorDialogue is given.
DummyWarning == "Using dummy save- and load- callbacks."
NoSaveCallback == "No file-saving callback found!"
NoLoadCallback == "No file-loading callback found!"

showErrorDialogue(m, e) == [m EXCEPT !.errorText = e]
hideErrorDialogue(m) == [m EXCEPT !.errorText = None]

\* The file a callback is handed: the live binding file or the profile file.
WriteFile(m, data) ==
    IF m.bindingFile = "live"
    THEN [m EXCEPT !.bindingFileData = <<data>>]
    ELSE [m EXCEPT !.profileData = <<data>>]

\* A saveKeyMapping that lets the callback's IOError pass unnoticed.
saveKeyMappingSilent(m) ==
    LET data == SaveData(m)
        called == [m EXCEPT !.saveCalls =
                      Append(@, [destination |-> m.bindingFile,
                                 keys |-> data.keys, axes |-> data.axes])]
    IN CASE m.callbacks = "none" -> showErrorDialogue(m, NoSaveCallback)
         [] m.callbacks = "dummy" -> [called EXCEPT !.firstCallback = FALSE]
         [] OTHER -> WriteFile(called, data)

\* saveKeyMapping: the save callback is handed the key records, the axis
\* records and self.bindingFile.  SaveLoadDummy's raises IOError the first
\* time it is called and does nothing afterwards.
saveKeyMapping(m) ==
    LET data == SaveData(m)
        called == [m EXCEPT !.saveCalls =
                      Append(@, [destination |-> m.bindingFile,
                                 keys |-> data.keys, axes |-> data.axes])]
    IN CASE m.callbacks = "none" -> showErrorDialogue(m, NoSaveCallback)
         [] m.callbacks = "dummy" ->
              IF m.firstCallback
              THEN showErrorDialogue([called EXCEPT !.firstCallback = FALSE],
                                     DummyWarning)
              ELSE called
         [] OTHER -> WriteFile(called, data)

\* Variant of BindAll that leaves the axis direction of a record out of the
\* call, so that bindKey takes its default of 0.
RECURSIVE BindAllDefaultDirection(_, _)
BindAllDefaultDirection(m, bindingList) ==
    IF bindingList = <<>>
    THEN m
    ELSE LET record == Head(bindingList)
         IN BindAllDefaultDirection(
                bindKey(m, record[1], record[2],
                        m.keyBindings[record[1]].type,
                        m.keyBindings[record[1]].callback, record[3], 0),
                Tail(bindingList))

\* The last loop of loadKeyMapping: bindKey for each record of bindingList.
RECURSIVE BindAll(_, _)
BindAll(m, bindingList) ==
    IF bindingList = <<>>
    THEN m
    ELSE LET record == Head(bindingList)
             bound == bindKey(m, record[1], record[2],
                              m.keyBindings[record[1]].type,
                              m.keyBindings[record[1]].callback,
                              record[3], record[4])
         IN IF bound.raised # None
            THEN bound
            ELSE BindAll(bound, Tail(bindingList))

\* A loadKeyMapping that empties the axis table before it calls the load
\* callback.
loadKeyMappingWipingFirst(m, data) ==
    CASE m.callbacks = "none" -> showErrorDialogue(m, NoLoadCallback)
      [] m.callbacks # "none" /\ (m.callbacks = "dummy" \/ data = NoFile) ->
            IF data # NoFile
            THEN showErrorDialogue([m EXCEPT !.axesInUse = <<>>], DummyWarning)
            ELSE [m EXCEPT !.axesInUse = <<>>]
      [] OTHER ->
            LET keySaveData == data[1].keys
                axisSaveData == data[1].axes
            IN IF \E i \in 1..Len(keySaveData) :
                      keySaveData[i][1] \notin DOMAIN m.keyBindings
               THEN [m EXCEPT !.raised = "KeyError"]
               ELSE BindAll([m EXCEPT !.axesInUse =
                               [i \in 1..Len(axisSaveData) |->
                                  AxisData(axisSaveData[i][1],
                                           axisSaveData[i][2])]],
                            keySaveData)

\* A loadKeyMapping that passes over the records of controls that are not
\* registered.
loadKeyMappingSkippingUnknown(m, data) ==
    CASE m.callbacks = "none" -> showErrorDialogue(m, NoLoadCallback)
      [] m.callbacks # "none" /\ (m.callbacks = "dummy" \/ data = NoFile) ->
            IF data # NoFile THEN showErrorDialogue(m, DummyWarning) ELSE m
      [] OTHER ->
            LET known(record) == record[1] \in DOMAIN m.keyBindings
                keySaveData == SelectSeq(data[1].keys, known)
                axisSaveData == data[1].axes
            IN BindAll([m EXCEPT !.axesInUse =
                          [i \in 1..Len(axisSaveData) |->
                             AxisData(axisSaveData[i][1],
                                      axisSaveData[i][2])]],
                       keySaveData)

\* Whether the load callback raises IOError: SaveLoadDummy's always does,
\* one that reads files does for a file that does not exist.
LoadFails(m, data) == m.callbacks = "dummy" \/ data = NoFile

\* loadKeyMapping with self.bindingFile a file of the given contents.  An
\* IOError leaves bindingList empty and is shown if the file exists; a
\* record of a control that is not registered is a KeyError, raised while
\* bindingList is built.
loadKeyMapping(m, data) ==
    CASE m.callbacks = "none" -> showErrorDialogue(m, NoLoadCallback)
      [] m.callbacks # "none" /\ LoadFails(m, data) ->
            IF data # NoFile THEN showErrorDialogue(m, DummyWarning) ELSE m
      [] OTHER ->
            LET keySaveData == data[1].keys
                axisSaveData == data[1].axes
            IN IF \E i \in 1..Len(keySaveData) :
                      keySaveData[i][1] \notin DOMAIN m.keyBindings
               THEN [m EXCEPT !.raised = "KeyError"]
               ELSE BindAll([m EXCEPT !.axesInUse =
                               [i \in 1..Len(axisSaveData) |->
                                  AxisData(axisSaveData[i][1],
                                           axisSaveData[i][2])]],
                            keySaveData)

(***************************************************************************)
(* Listening for arbitrary input while the binding dialogue is shown.      *)
(***************************************************************************)
\* The device classes other than keyboard and mouse, as strings.
DeviceTypeStrings == {DeviceClass(d) : d \in Devices}

\* Whether setupEventsForDevice finds no thrower for the device's class
\* (a KeyError).
SetupRaises(m, device) == DeviceClass(device) \notin m.deviceButtonThrowers

setupEventsForDevice(m, device) ==
    IF SetupRaises(m, device)
    THEN [m EXCEPT !.raised = "KeyError"]
    ELSE [m EXCEPT
           !.dataNPList = Append(@, device),
           !.deviceAxisTestValues =
               [d \in (DOMAIN @) \cup {device} |->
                  IF d = device
                  THEN [a \in DeviceAxes(device) |-> m.reading[a]]
                  ELSE @[d]]]

RECURSIVE SetupEventsForDevices(_, _)
SetupEventsForDevices(m, devicesAttachedForBinding) ==
    IF devicesAttachedForBinding = {}
    THEN m
    ELSE LET device == CHOOSE d \in devicesAttachedForBinding : TRUE
         IN SetupEventsForDevices(setupEventsForDevice(m, device),
                                  devicesAttachedForBinding \ {device})

setEvents(m) ==
    SetupEventsForDevices(
        [m EXCEPT !.buttonThrowerOn = TRUE,
                  !.deviceButtonThrowers = DeviceTypeStrings],
        m.attached)

clearEvents(m) ==
    [m EXCEPT !.buttonThrowerOn = FALSE,
              !.dataNPList = <<>>,
              !.deviceButtonThrowers = {}]

clearEventsForDevice(m, device) ==
    [m EXCEPT !.dataNPList = SelectSeq(@, LAMBDA d : d # device)]

showBindingDialogue(m, keyDescription) ==
    setEvents([m EXCEPT !.lastKeyInterception = None,
                        !.lastKeyInterceptionDeviceType = None,
                        !.lastKeyInterceptionValue = 0,
                        !.bindingDialogueVisible = TRUE,
                        !.deviceAxisTestValues = <<>>])

hideBindingDialogue(m) ==
    clearEvents([m EXCEPT !.bindingDialogueVisible = FALSE,
                          !.lastKeyInterception = None,
                          !.lastKeyInterceptionDeviceType = None,
                          !.lastKeyInterceptionValue = 0])

getNewBinding(m, keyDescription) ==
    showBindingDialogue([m EXCEPT !.keyBeingBound = keyDescription],
                        keyDescription)

(***************************************************************************)
(* Interception, release, conflicts.                                       *)
(***************************************************************************)
Sign(keyValue) == IF keyValue > 0 THEN 1 ELSE IF keyValue < 0 THEN -1 ELSE 0

\* "mouse" if the name starts with "mouse", else "keyboard".
DeviceTypeFromName(key) == IF IsMouse(key) THEN "mouse" ELSE "keyboard"

keyInterception(m, deviceType, key, keyValue) ==
    [m EXCEPT
       !.lastKeyInterceptionDeviceType =
           IF deviceType = None THEN DeviceTypeFromName(key) ELSE deviceType,
       !.lastKeyInterception = key,
       !.lastKeyInterceptionValue = Sign(keyValue)]

\* The condition under which the scan of keyRelease names keyDescription as
\* the conflict.
Conflicts(m, keyDescription) ==
    /\ m.keyBindings[keyDescription].binding = m.lastKeyInterception
    /\ keyDescription # m.keyBeingBound
    /\ hasBitsInCommon(m.keyBindings[keyDescription].groupID,
                       m.keyBindings[m.keyBeingBound].groupID)
    /\ IsAxis(m.keyBindings[keyDescription].binding) =>
         \E i \in 1..Len(m.axesInUse) :
            \/ /\ m.axesInUse[i].keyDescriptionPositive = keyDescription
               /\ m.lastKeyInterceptionValue > 0
            \/ /\ m.axesInUse[i].keyDescriptionNegative = keyDescription
               /\ m.lastKeyInterceptionValue < 0

\* The value of "conflict" after the scan: the last control, in the order of
\* self.keyBindings, that conflicts.
ConflictOf(m) ==
    LET found == {i \in 1..Len(keyOrder) : Conflicts(m, keyOrder[i])}
    IN IF found = {}
       THEN None
       ELSE keyOrder[CHOOSE i \in found : \A j \in found : j <= i]

\* A handleBindingConflict that leaves the listeners on.
handleBindingConflictListening(m, conflictingKey) ==
    [m EXCEPT !.currentConflict = conflictingKey,
              !.conflictDialogueShown = TRUE]

handleBindingConflict(m, conflictingKey) ==
    [clearEvents(m) EXCEPT !.currentConflict = conflictingKey,
                           !.conflictDialogueShown = TRUE]

\* A finishKeyRelease that saves the mapping before it binds the input.
finishKeyReleaseSavingFirst(m) ==
    LET saved == saveKeyMapping([m EXCEPT !.bindingFile = "live"])
        bound == bindKey(saved, m.keyBeingBound, m.lastKeyInterception,
                         m.keyBindings[m.keyBeingBound].type,
                         m.keyBindings[m.keyBeingBound].callback,
                         m.lastKeyInterceptionDeviceType,
                         m.lastKeyInterceptionValue)
        hidden == hideBindingDialogue([bound EXCEPT !.keyBeingBound = None])
    IN [hidden EXCEPT !.deviceAxisTestValues = <<>>]

\* finishKeyRelease: bind the captured input, hide the binding dialogue, and
\* save with self.bindingFile the live binding file.
finishKeyRelease(m) ==
    LET bound == bindKey(m, m.keyBeingBound, m.lastKeyInterception,
                         m.keyBindings[m.keyBeingBound].type,
                         m.keyBindings[m.keyBeingBound].callback,
                         m.lastKeyInterceptionDeviceType,
                         m.lastKeyInterceptionValue)
        hidden == hideBindingDialogue([bound EXCEPT !.keyBeingBound = None])
    IN IF bound.raised # None
       THEN bound
       ELSE [saveKeyMapping([hidden EXCEPT !.bindingFile = "live"]) EXCEPT
                !.deviceAxisTestValues = <<>>]

keyRelease(m, key) ==
    IF /\ m.bindingDialogueVisible
       /\ m.keyBeingBound # None
       /\ (m.lastKeyInterception # None \/ IsMouse(key))
    THEN LET key1 == IF m.lastKeyInterception = None
                     THEN key ELSE m.lastKeyInterception
             type1 == IF m.lastKeyInterceptionDeviceType = None
                      THEN DeviceTypeFromName(key1)
                      ELSE m.lastKeyInterceptionDeviceType
             m1 == [m EXCEPT !.lastKeyInterception = key1,
                             !.lastKeyInterceptionDeviceType = type1]
             conflict == ConflictOf(m1)
         IN IF conflict # None
            THEN handleBindingConflict(m1, conflict)
            ELSE finishKeyRelease(m1)
    ELSE m

\* Variant of conflictResolutionCancel that keeps the candidate.
conflictResolutionCancelKeepsCandidate(m) ==
    setEvents([m EXCEPT !.currentConflict = None,
                        !.conflictDialogueShown = FALSE])

conflictResolutionCancel(m) ==
    setEvents([m EXCEPT !.lastKeyInterception = None,
                        !.currentConflict = None,
                        !.conflictDialogueShown = FALSE])

conflictResolutionContinue(m) ==
    [finishKeyRelease([m EXCEPT !.conflictDialogueShown = FALSE])
        EXCEPT !.currentConflict = None]

(***************************************************************************)
(* Bound-input events, hot-plug and the per-frame update.                  *)
(***************************************************************************)
keyPressed(m, description, value) == [m EXCEPT !.keys[description] = value]

\* The handler subscribed for a bound input: keyPressed for a held control,
\* the application's callback (no effect on the manager) otherwise.
BoundHandler(m, keyDescription, value) ==
    IF keyDescription # None
       /\ m.keyBindings[keyDescription].type = KEYMAP_HELD_KEY
    THEN keyPressed(m, keyDescription, value)
    ELSE m

\* Whether the engine throws events for the button at all: device buttons
\* need the device plugged in.
ButtonAvailable(m, key) ==
    ButtonDeviceType(key) \in {"keyboard", "mouse"}
    \/ \E d \in m.attached : DeviceClass(d) = ButtonDeviceType(key)

\* The named event of a bound input reaches eventObject: always for keyboard
\* and mouse, through the thrower of addUsedDevice for a device button.
SpecificEventThrown(m, key) ==
    ButtonDeviceType(key) \in {"keyboard", "mouse"}
    \/ \E d \in m.devicesInUse : DeviceClass(d) = ButtonDeviceType(key)

\* The generic interception events are thrown: by the main button thrower
\* once setEvents has named them, by a device's thrower while it is listed
\* in dataNPList.
GenericEventThrown(m, key) ==
    IF ButtonDeviceType(key) \in {"keyboard", "mouse"}
    THEN m.buttonThrowerOn
    ELSE \E i \in 1..Len(m.dataNPList) :
            DeviceClass(m.dataNPList[i]) = ButtonDeviceType(key)

\* A button goes down: its named event first, then the generic one, which
\* is "keyInterception" for keyboard and mouse and "keyInterception_<class>"
\* for a device.
buttonDown(m, key) ==
    LET m1 == IF SpecificEventThrown(m, key)
              THEN BoundHandler(m, m.events.down[key], 10)
              ELSE m
    IN IF GenericEventThrown(m1, key)
       THEN keyInterception(m1,
                IF ButtonDeviceType(key) \in {"keyboard", "mouse"}
                THEN None ELSE ButtonDeviceType(key),
                key, 0)
       ELSE m1

\* A button goes up: its named "-up" event first, then "keyRelease".
buttonUp(m, key) ==
    LET m1 == IF SpecificEventThrown(m, key)
              THEN BoundHandler(m, m.events.up[key], 0)
              ELSE m
    IN IF GenericEventThrown(m1, key)
       THEN keyRelease(m1, key)
       ELSE m1

connectController(m, controller) ==
    LET deviceTypeToAdd == DeviceClass(controller)
        m1 == IF \E kd \in DOMAIN m.keyBindings :
                    m.keyBindings[kd].deviceType = deviceTypeToAdd
              THEN addUsedDevice(m, deviceTypeToAdd)
              ELSE m
    IN IF m1.bindingDialogueVisible
       THEN setupEventsForDevice(m1, controller)
       ELSE m1

disconnectController(m, controller) ==
    LET m1 == IF m.bindingDialogueVisible
              THEN clearEventsForDevice(m, controller)
              ELSE m
    IN IF controller \in m1.devicesInUse
       THEN removeUsedDevice(m1, DeviceClass(controller))
       ELSE m1

\* The callback handleAxis invokes on an edge: the control's callback if its
\* type asks for that edge, recorded as the pair of control and edge.
CallbackFired(fired, keyBinding, keyDescription, edge) ==
    IF keyBinding.type \in {edge, KEYMAP_EVENT_PRESSED_AND_RELEASED}
    THEN Append(fired, <<keyDescription, edge>>)
    ELSE fired

handleAxis(m, keyDescription, value, deadZoneVal) ==
    IF keyDescription = None
    THEN m
    ELSE LET absValue == Abs(value)
             oldKeyState == Abs(m.keys[keyDescription])
             binaryValue == m.keyBindings[keyDescription].type # KEYMAP_HELD_KEY
         IN IF binaryValue
            THEN IF oldKeyState < HalfThreshold /\ absValue > HalfThreshold
                 THEN [m EXCEPT !.keys[keyDescription] =
                         IF negativeValuesForNegativeAxes
                         THEN (IF value > 0 THEN 10 ELSE -10)
                         ELSE 10,
                       !.fired = CallbackFired(@, m.keyBindings[keyDescription],
                                               keyDescription, KEYMAP_EVENT_PRESSED)]
                 ELSE IF oldKeyState > HalfThreshold /\ absValue < HalfThreshold
                      THEN [m EXCEPT !.keys[keyDescription] = 0,
                             !.fired = CallbackFired(@, m.keyBindings[keyDescription],
                                                     keyDescription, KEYMAP_EVENT_RELEASED)]
                      ELSE m
            ELSE IF absValue < deadZoneVal
                 THEN [m EXCEPT !.keys[keyDescription] = 0]
                 ELSE IF negativeValuesForNegativeAxes
                      THEN [m EXCEPT !.keys[keyDescription] = value]
                      ELSE [m EXCEPT !.keys[keyDescription] = absValue]

\* The reading of an axis on a device (device.findAxis(axis).value).
AxisReading(m, device, axisStr) == m.reading[axisStr]

\* The readings update hands to handleAxis, each clamped to its sign.
ValuePositive(m, axisData) ==
    IF axisData.devicePositive # None
    THEN Max(0, AxisReading(m, axisData.devicePositive, axisData.axis))
    ELSE 0

\* Variant of ValueNegative that clamps to the positive side.
ValueNegativeClampedUp(m, axisData) ==
    IF axisData.deviceNegative # None
    THEN Max(0, AxisReading(m, axisData.deviceNegative, axisData.axis))
    ELSE 0

ValueNegative(m, axisData) ==
    IF axisData.deviceNegative # None
    THEN Min(0, AxisReading(m, axisData.deviceNegative, axisData.axis))
    ELSE 0

\* The idle branch of update, over self.axesInUse from entry i on.
RECURSIVE PollAxes(_, _)
PollAxes(m, i) ==
    IF i > Len(m.axesInUse)
    THEN m
    ELSE LET axisData == m.axesInUse[i]
             m1 == handleAxis(m, axisData.keyDescriptionPositive,
                              ValuePositive(m, axisData), axisData.deadZone)
             m2 == handleAxis(m1, axisData.keyDescriptionNegative,
                              ValueNegative(m, axisData), axisData.deadZone)
         IN PollAxes(m2, i + 1)

\* The test of the binding branch of update on one axis of a listed device.
AxisMoved(m, device, axisID) ==
    LET value == AxisReading(m, device, axisID)
        axisIsPresent == axisID \in DOMAIN m.deviceAxisTestValues[device]
    IN \/ ~axisIsPresent /\ Abs(value) > HalfThreshold
       \/ axisIsPresent
          /\ Abs(value - m.deviceAxisTestValues[device][axisID]) > InterceptionDelta

update(m) ==
    IF m.bindingDialogueVisible
    THEN LET moved == {i \in 1..Len(m.dataNPList) :
                         \E a \in DeviceAxes(m.dataNPList[i]) :
                            AxisMoved(m, m.dataNPList[i], a)}
         IN IF moved = {}
            THEN m
            ELSE LET first == CHOOSE i \in moved : \A j \in moved : i <= j
                     device == m.dataNPList[first]
                     axisID == CHOOSE a \in DeviceAxes(device) :
                                   AxisMoved(m, device, a)
                     axisStr == AxisName(axisID)
                 IN keyRelease(keyInterception(m, DeviceClass(device), axisStr,
                                               AxisReading(m, device, axisID)),
                               axisStr)
    ELSE PollAxes(m, 1)

(***************************************************************************)
(* The state machine.                                                      *)
(***************************************************************************)
\* What the application registers: the binding type and the conflict group
\* of each control.
KeyTypes(description) ==
    IF description = "jump"
    THEN {KEYMAP_EVENT_PRESSED_AND_RELEASED}
    ELSE {KEYMAP_HELD_KEY}
GroupChoices(description) ==
    CASE description = "left" -> {1}
      [] description = "right" -> {3}
      [] OTHER -> {2}

\* The default binding (input and axis direction) the application may give
\* each control.
DefaultChoices(description) ==
    CASE description = "left" -> {<<"Axis.left_x", -1>>, <<"space", 0>>}
      [] description = "right" -> {<<"Axis.left_x", 1>>, <<"space", 0>>}
      [] OTHER -> {<<"space", 0>>, <<"mouse1", 0>>}

\* The callbacks the application may register each control with: none for
\* the held control "left", one the held control "right" never uses, and
\* for the pressed-and-released control "jump" a pair, nothing, or a list
\* that lacks one of the two.
ControlCallbacks(description) ==
    CASE description = "left" -> {NoCallback}
      [] description = "right" -> {Callable}
      [] OTHER -> {CallbackList(<<"callable", "callable">>), NoCallback,
                   CallbackList(<<"callable">>),
                   CallbackList(<<None, "callable">>),
                   CallbackList(<<"callable", None>>)}

\* The dead zones the application sets (tenths).
DeadZoneValues == {3, 5}

\* Bounds on the number of rebind requests, profile saves and profile loads
\* of a run, and on their total.
MaxRebinds == 2
MaxSaves == 1
MaxLoads == 1
MaxOperations == 3
MaxFaultyOperations == 1

\* The events the constructor accepts besides those of the bindings.
KeyInterceptionEvents == {"keyInterception", "keyRelease", "keyInterception_gamepad"}
DeviceEvents == {"connect-device", "disconnect-device"}

Init ==
    /\ phase = "register"
    /\ negativeValuesForNegativeAxes \in BOOLEAN
    /\ keyOrder = <<>>
    /\ keyBindings = <<>>
    /\ keys = <<>>
    /\ events = NoEvents
    /\ axesInUse = <<>>
    /\ devicesInUse = {}
    /\ attached \in SUBSET Devices
    /\ bindingDialogueVisible = FALSE
    /\ conflictDialogueShown = FALSE
    /\ keyBeingBound = None
    /\ currentConflict = None
    /\ lastKeyInterception = ""
    /\ lastKeyInterceptionDeviceType = None
    /\ lastKeyInterceptionValue = 0
    /\ buttonThrowerOn = FALSE
    /\ deviceButtonThrowers = {}
    /\ dataNPList = <<>>
    /\ deviceAxisTestValues = <<>>
    /\ bindingFileData = NoFile
    /\ profileData = NoFile
    /\ rebinds = 0
    /\ saves = 0
    /\ loads = 0
    /\ callbacks \in CallbackChoices
    /\ firstCallback = TRUE
    /\ saveCalls = <<>>
    /\ errorText = None
    /\ raised = None
    /\ accepted = KeyInterceptionEvents \cup DeviceEvents
    /\ risen = {}

\* addKey(description, defaultKey, defaultKeyDeviceType, keyType, callback,
\* axisDirection, groupID), for the next control of the application.
addKey(m, description, defaultKey, deviceType, keyType, callback, axisDirection, groupID) ==
    LET newBinding == KeyBinding(defaultKey, keyType, callback, deviceType,
                                 axisDirection, groupID)
        m1 == [m EXCEPT
                 !.keys = [kd \in (DOMAIN @) \cup {description} |->
                             IF kd = description THEN 0 ELSE @[kd]],
                 !.keyBindings = [kd \in (DOMAIN @) \cup {description} |->
                             IF kd = description THEN newBinding ELSE @[kd]]]
    IN bindKey(m1, description, defaultKey, keyType, callback, deviceType,
               axisDirection)

AddKey ==
    /\ phase = "register"
    /\ raised = None
    /\ Len(keyOrder) < Len(KeyDescriptions)
    /\ \E default \in DefaultChoices(KeyDescriptions[Len(keyOrder) + 1]),
          keyType \in KeyTypes(KeyDescriptions[Len(keyOrder) + 1]),
          callback \in ControlCallbacks(KeyDescriptions[Len(keyOrder) + 1]),
          groupID \in GroupChoices(KeyDescriptions[Len(keyOrder) + 1]) :
            LET description == KeyDescriptions[Len(keyOrder) + 1]
                defaultKey == default[1]
                axisDirection == default[2]
                deviceType == IF IsAxis(defaultKey) THEN "gamepad"
                              ELSE ButtonDeviceType(defaultKey)
                added == addKey(Manager, description, defaultKey, deviceType,
                                keyType, callback, axisDirection, groupID)
            IN /\ Becomes(added)
               /\ keyOrder' = IF added.raised # None THEN keyOrder
                               ELSE Append(keyOrder, description)
    /\ UNCHANGED <<phase, negativeValuesForNegativeAxes, risen,
                   rebinds, saves, loads>>

\* setup(): load the live binding file, save it, hide the dialogues.
setup(m) ==
    LET loaded == loadKeyMapping(hideErrorDialogue(m), m.bindingFileData)
    IN IF loaded.raised # None
       THEN loaded
       ELSE [saveKeyMapping(loaded) EXCEPT
                !.bindingDialogueVisible = FALSE,
                !.conflictDialogueShown = FALSE,
                !.lastKeyInterception = None,
                !.lastKeyInterceptionDeviceType = None,
                !.lastKeyInterceptionValue = 0]

Setup ==
    /\ phase = "register"
    /\ raised = None
    /\ Len(keyOrder) = Len(KeyDescriptions)
    /\ Becomes(setup(Manager))
    /\ phase' = "run"
    /\ UNCHANGED <<negativeValuesForNegativeAxes, risen, keyOrder,
                   rebinds, saves, loads>>

\* The user's requests a run takes: fewer with callbacks that keep no file.
OperationBudget ==
    IF callbacks = "files" THEN MaxOperations ELSE MaxFaultyOperations

\* The application is running: setup is done and no exception has ended it.
Running == phase = "run" /\ raised = None

\* No dialogue is up, so the binding list and the profile menu can be used.
NoDialogue == ~bindingDialogueVisible /\ ~conflictDialogueShown

GetNewBinding ==
    /\ Running
    /\ NoDialogue
    /\ rebinds < MaxRebinds
    /\ rebinds + saves + loads < OperationBudget
    /\ \E keyDescription \in Registered, reading \in Readings :
          Becomes(getNewBinding(Sampling(Manager, reading), keyDescription))
    /\ rebinds' = rebinds + 1
    /\ UNCHANGED <<phase, negativeValuesForNegativeAxes, risen, keyOrder, saves, loads>>

HideBindingDialogue ==
    /\ Running
    /\ bindingDialogueVisible /\ ~conflictDialogueShown
    /\ Becomes(hideBindingDialogue(Manager))
    /\ UNCHANGED <<phase, negativeValuesForNegativeAxes, risen, keyOrder, rebinds, saves, loads>>

ButtonDown ==
    /\ Running
    /\ \E key \in Buttons :
         /\ ButtonAvailable(Manager, key)
         /\ Becomes(buttonDown(Manager, key))
    /\ UNCHANGED <<phase, negativeValuesForNegativeAxes, risen, keyOrder, rebinds, saves, loads>>

ButtonUp ==
    /\ Running
    /\ \E key \in Buttons :
         /\ ButtonAvailable(Manager, key)
         /\ Becomes(buttonUp(Manager, key))
    /\ UNCHANGED <<phase, negativeValuesForNegativeAxes, risen, keyOrder, rebinds, saves, loads>>

ConflictContinue ==
    /\ Running
    /\ conflictDialogueShown
    /\ Becomes(conflictResolutionContinue(Manager))
    /\ UNCHANGED <<phase, negativeValuesForNegativeAxes, risen, keyOrder, rebinds, saves, loads>>

ConflictCancel ==
    /\ Running
    /\ conflictDialogueShown
    /\ \E reading \in Readings :
          Becomes(conflictResolutionCancel(Sampling(Manager, reading)))
    /\ UNCHANGED <<phase, negativeValuesForNegativeAxes, risen, keyOrder, rebinds, saves, loads>>

\* The binary controls bound to a direction of an axis of a plugged-in device.
BinaryOnAxis ==
    {c \in Registered :
        /\ keyBindings[c].type # KEYMAP_HELD_KEY
        /\ IsAxis(keyBindings[c].binding)
        /\ keyBindings[c].axisDirection \in {-1, 1}
        /\ \E d \in attached : DeviceClass(d) = keyBindings[c].deviceType}

\* The magnitude of a reading in the direction the control is bound to.
Magnitude(c, reading) ==
    Max(0, keyBindings[c].axisDirection * reading[AxisStr(keyBindings[c].binding)])

\* The task that runs update every frame.  risen keeps what the idle
\* branch read: the binary controls whose direction was above the threshold.
Update ==
    /\ Running
    /\ \E reading \in Readings :
          /\ Becomes(update(Sampling(Manager, reading)))
          /\ risen' = IF bindingDialogueVisible
                      THEN risen
                      ELSE {c \in BinaryOnAxis : Magnitude(c, reading) > HalfThreshold}
    /\ UNCHANGED <<phase, negativeValuesForNegativeAxes, keyOrder, rebinds, saves, loads>>

ConnectDevice ==
    /\ Running
    /\ \E controller \in Devices \ attached, reading \in Readings :
         Becomes(connectController(
                     [Sampling(Manager, reading) EXCEPT
                         !.attached = @ \cup {controller}],
                     controller))
    /\ UNCHANGED <<phase, negativeValuesForNegativeAxes, risen, keyOrder, rebinds, saves, loads>>

DisconnectDevice ==
    /\ Running
    /\ \E controller \in attached :
         Becomes(disconnectController(
                     [Manager EXCEPT !.attached = @ \ {controller}],
                     controller))
    /\ UNCHANGED <<phase, negativeValuesForNegativeAxes, risen, keyOrder, rebinds, saves, loads>>

\* setDeadZoneForAxis(axisIndex, deadZone), the indices counted from 1 here.
setDeadZoneForAxis(m, axisIndex, deadZone) ==
    [m EXCEPT !.axesInUse[axisIndex].deadZone = deadZone]

\* The application sets dead zones once setup is done, before the user's
\* first request.
SetDeadZoneForAxis ==
    /\ Running
    /\ NoDialogue
    /\ rebinds + saves + loads = 0
    /\ \E axisIndex \in 1..Len(axesInUse), deadZone \in DeadZoneValues :
          Becomes(setDeadZoneForAxis(Manager, axisIndex, deadZone))
    /\ UNCHANGED <<phase, negativeValuesForNegativeAxes, risen, keyOrder, rebinds, saves, loads>>

\* saveNewProfile: the current mapping is saved with self.bindingFile the
\* profile file, and self.bindingFile is set back.
saveNewProfile(m) ==
    [saveKeyMapping([m EXCEPT !.bindingFile = "profile"]) EXCEPT
        !.bindingFile = "live"]

SaveNewProfile ==
    /\ Running
    /\ NoDialogue
    /\ saves < MaxSaves
    /\ rebinds + saves + loads < OperationBudget
    /\ Becomes(saveNewProfile(Manager))
    /\ saves' = saves + 1
    /\ UNCHANGED <<phase, negativeValuesForNegativeAxes, risen, keyOrder, rebinds, loads>>

\* loadProfile: load with self.bindingFile the profile's file, set
\* self.bindingFile back, then save the live binding file.
loadProfile(m, data) ==
    LET loaded == loadKeyMapping([m EXCEPT !.bindingFile = "profile"], data)
    IN IF loaded.raised # None
       THEN loaded
       ELSE saveKeyMapping([loaded EXCEPT !.bindingFile = "live"])

\* The profiles found in the default profile directory: one written when
\* "left" was not yet a control of the application, and one written when it
\* had a control "crouch".
PartialProfile ==
    [keys |-> <<<<"right", "Axis.left_x", "gamepad", 1>>,
                <<"jump", "mouse1", "mouse", 0>>>>,
     axes |-> <<<<"left_x", deadZoneDefaultValue>>>>]
ForeignProfile ==
    [keys |-> <<<<"jump", "mouse1", "mouse", 0>>,
                <<"crouch", "space", "keyboard", 0>>>>,
     axes |-> <<>>]
DefaultProfiles == {PartialProfile, ForeignProfile}

\* loadProfile for one of the default profiles.
LoadDefaultProfile ==
    /\ Running
    /\ NoDialogue
    /\ loads < MaxLoads
    /\ rebinds + saves + loads < OperationBudget
    /\ \E profile \in DefaultProfiles :
          Becomes(loadProfile(Manager, <<profile>>))
    /\ loads' = loads + 1
    /\ UNCHANGED <<phase, negativeValuesForNegativeAxes, risen, keyOrder, rebinds, saves>>

LoadProfile ==
    /\ Running
    /\ NoDialogue
    /\ profileData # NoFile
    /\ loads < MaxLoads
    /\ rebinds + saves + loads < OperationBudget
    /\ Becomes(loadProfile(Manager, profileData))
    /\ loads' = loads + 1
    /\ UNCHANGED <<phase, negativeValuesForNegativeAxes, risen, keyOrder, rebinds, saves>>

\* The user dismisses the error dialogue.
HideErrorDialogue ==
    /\ Running
    /\ errorText # None
    /\ Becomes(hideErrorDialogue(Manager))
    /\ UNCHANGED <<phase, negativeValuesForNegativeAxes, risen, keyOrder, rebinds, saves, loads>>

Next ==
    \/ HideErrorDialogue
    \/ LoadDefaultProfile
    \/ AddKey
    \/ Setup
    \/ GetNewBinding
    \/ HideBindingDialogue
    \/ ButtonDown
    \/ ButtonUp
    \/ ConflictContinue
    \/ ConflictCancel
    \/ Update
    \/ ConnectDevice
    \/ DisconnectDevice
    \/ SetDeadZoneForAxis
    \/ SaveNewProfile
    \/ LoadProfile

Spec == Init /\ [][Next]_vars

(***************************************************************************)
(* Teardown.                                                               *)
(***************************************************************************)
\* The loop of destroy over the copied bindings, from the i-th on.
RECURSIVE ClearCopied(_, _, _)
ClearCopied(m, copy, i) ==
    IF i > Len(copy)
    THEN m
    ELSE ClearCopied(clearKeyEvent(m, copy[i], 0), copy, i + 1)

\* destroy(): the tables are None afterwards, here the empty table.
destroy(m) ==
    LET copy == [i \in 1..Len(keyOrder) |-> m.keyBindings[keyOrder[i]].binding]
        cleared == ClearCopied(clearEvents(m), copy, 1)
    IN [cleared EXCEPT !.accepted = @ \ KeyInterceptionEvents,
                       !.keys = <<>>,
                       !.keyBindings = <<>>]

\* The application tears the manager down after at most this many rebind
\* requests, profile saves and profile loads.
MaxOperationsBeforeDestroy == 1

Destroy ==
    /\ Running
    /\ rebinds + saves + loads <= MaxOperationsBeforeDestroy
    /\ Becomes(destroy(Manager))
    /\ phase' = "destroyed"
    /\ UNCHANGED <<negativeValuesForNegativeAxes, risen, keyOrder, rebinds, saves, loads>>

\* A device is plugged in after destroy: if "connect-device" is still
\* accepted, connectController runs and fails on self.keyBindings, which
\* is None.
ConnectAfterDestroy ==
    /\ phase = "destroyed"
    /\ raised = None
    /\ \E controller \in Devices \ attached :
          Becomes([Manager EXCEPT
                     !.attached = @ \cup {controller},
                     !.raised = IF "connect-device" \in accepted
                                THEN "AttributeError" ELSE @])
    /\ UNCHANGED <<phase, negativeValuesForNegativeAxes, risen, keyOrder, rebinds, saves, loads>>

\* A device is unplugged after destroy: if "disconnect-device" is still
\* accepted, disconnectController runs on what destroy left.
DisconnectAfterDestroy ==
    /\ phase = "destroyed"
    /\ raised = None
    /\ \E controller \in attached :
          LET m == [Manager EXCEPT !.attached = @ \ {controller}]
          IN Becomes(IF "disconnect-device" \in accepted
                     THEN disconnectController(m, controller)
                     ELSE m)
    /\ UNCHANGED <<phase, negativeValuesForNegativeAxes, risen, keyOrder, rebinds, saves, loads>>

NextWithTeardown ==
    \/ Next
    \/ Destroy
    \/ ConnectAfterDestroy
    \/ DisconnectAfterDestroy

TeardownSpec == Init /\ [][NextWithTeardown]_vars


(***************************************************************************)
(* Vocabulary of the properties.                                           *)
(***************************************************************************)
\* The (binding, device type, axis direction) of every registered control.
BindingState(kb) ==
    [c \in DOMAIN kb |-> <<kb[c].binding, kb[c].deviceType, kb[c].axisDirection>>]

AwaitingRebind ==
    bindingDialogueVisible /\ ~conflictDialogueShown /\ keyBeingBound # None

ConflictPending == conflictDialogueShown

Idle == ~bindingDialogueVisible /\ ~conflictDialogueShown /\ keyBeingBound = None

\* Control B is bound to the physical input (k, d): the button k, or the
\* axis k with axis direction d.
HoldsInput(kb, B, k, d) ==
    /\ kb[B].binding = k
    /\ IsAxis(k) => kb[B].axisDirection = d

Overlap(kb, A, B) == hasBitsInCommon(kb[A].groupID, kb[B].groupID)

(***************************************************************************)
(* C1.  While a rebind of control A awaits input, a candidate that is bound *)
(* to another control B of an overlapping group (for an axis: B holds the   *)
(* candidate's direction of it) is never committed: the step that takes the *)
(* release shows the conflict dialogue with B as currentConflict and the    *)
(* candidate still recorded, and from there until the conflict dialogue is  *)
(* closed no control's binding, device type or axis direction changes.      *)
(***************************************************************************)
C1_ConflictRaised ==
    [][ /\ (AwaitingRebind /\ keyBeingBound' = None) =>
             ~ \E B \in Registered \ {keyBeingBound} :
                 /\ Overlap(keyBindings, keyBeingBound, B)
                 /\ HoldsInput(keyBindings, B,
                               keyBindings'[keyBeingBound].binding,
                               keyBindings'[keyBeingBound].axisDirection)
        /\ (AwaitingRebind /\ conflictDialogueShown') =>
             /\ currentConflict' \in Registered \ {keyBeingBound}
             /\ Overlap(keyBindings, keyBeingBound, currentConflict')
             /\ HoldsInput(keyBindings, currentConflict',
                           lastKeyInterception', lastKeyInterceptionValue')
             /\ keyBeingBound' = keyBeingBound
             /\ BindingState(keyBindings') = BindingState(keyBindings)
        /\ (conflictDialogueShown /\ conflictDialogueShown') =>
             /\ BindingState(keyBindings') = BindingState(keyBindings)
             /\ currentConflict' = currentConflict
             /\ keyBeingBound' = keyBeingBound
      ]_vars

(***************************************************************************)
(* C2.  A control that is given an input (at registration or by a finished  *)
(* rebind) which another control of a disjoint group already holds gets it  *)
(* without a conflict, and the other control keeps its binding.             *)
(***************************************************************************)
C2_DisjointShare ==
    [][ \A A \in Registered', B \in Registered :
          ( /\ A # B
            /\ A \notin Registered \/ (AwaitingRebind /\ keyBeingBound = A)
            /\ keyBindings[B].binding # None
            /\ ~hasBitsInCommon(keyBindings'[A].groupID, keyBindings[B].groupID)
            /\ A \in Registered => BindingState(keyBindings')[A] # BindingState(keyBindings)[A]
            /\ HoldsInput(keyBindings, B, keyBindings'[A].binding,
                          keyBindings'[A].axisDirection) )
          => /\ ~conflictDialogueShown'
             /\ BindingState(keyBindings')[B] = BindingState(keyBindings)[B]
      ]_vars

(***************************************************************************)
(* C3.  Closing the conflict dialogue with "overwrite" leaves the           *)
(* conflicting control unbound, the control being rebound bound to the      *)
(* candidate and every other control as it was, with the manager idle;      *)
(* closing it with "cancel" leaves every binding as it was when the rebind  *)
(* was requested, drops the candidate and listens again for the same        *)
(* control.                                                                 *)
(***************************************************************************)
C3_Resolution ==
    [][ /\ (ConflictPending /\ ~conflictDialogueShown' /\ keyBeingBound' = None) =>
             /\ keyBindings'[currentConflict].binding = None
             /\ keyBindings'[keyBeingBound].binding = lastKeyInterception
             /\ keyBindings'[keyBeingBound].axisDirection = lastKeyInterceptionValue
             /\ \A c \in Registered \ {currentConflict, keyBeingBound} :
                   BindingState(keyBindings')[c] = BindingState(keyBindings)[c]
             /\ Idle'
             /\ currentConflict' = None
        /\ (ConflictPending /\ ~conflictDialogueShown' /\ keyBeingBound' # None) =>
             /\ BindingState(keyBindings') = BindingState(keyBindings)
             /\ lastKeyInterception' = None
             /\ currentConflict' = None
             /\ AwaitingRebind'
             /\ keyBeingBound' = keyBeingBound
             /\ buttonThrowerOn'
        /\ bindingDialogueVisible' =>
             BindingState(keyBindings') = BindingState(keyBindings)
      ]_vars

\* A conflict was resolved by overwriting: after the only rebind so far the
\* manager is idle, "right" holds the button "jump" had, whose group
\* overlaps its own, and "jump" is unbound.
C3_Witness ==
    /\ Idle /\ phase = "run" /\ rebinds = 1 /\ loads = 0
    /\ keyBindings["right"].binding = "mouse1"
    /\ keyBindings["jump"].binding = None
    /\ keyBindings["left"].binding # None

\* A conflict was cancelled: listening again, with no candidate, yet the
\* device type of the dropped candidate is still recorded.
C3_WitnessCancel ==
    /\ AwaitingRebind
    /\ lastKeyInterception = None
    /\ lastKeyInterceptionDeviceType # None

(***************************************************************************)
(* C4.  In every state in which a profile can be saved and loaded, loading  *)
(* what saveKeyMapping writes of that state gives every control the         *)
(* binding, device type and axis direction it had when it was saved.        *)
(***************************************************************************)
C4_SaveLoadRoundTrip ==
    (phase = "run" /\ NoDialogue) =>
        BindingState(loadKeyMapping(Manager, <<SaveData(Manager)>>).keyBindings)
            = BindingState(keyBindings)

\* A profile was loaded over bindings that differ from the live file's, and
\* the bindings now are the profile's, an axis direction and an unbound
\* control among them.
C4_Witness ==
    /\ phase = "run" /\ NoDialogue
    /\ loads = 1 /\ rebinds > 0
    /\ profileData # NoFile
    /\ profileData[1].keys = SaveData(Manager).keys
    /\ \E c \in Registered : IsAxis(keyBindings[c].binding)
                             /\ keyBindings[c].axisDirection # 0
    /\ \E c \in Registered : keyBindings[c].binding = None

(***************************************************************************)
(* C5.  For every control c and every input (a button, or an axis with      *)
(* direction +1 or -1), bindKey(c, input, ...) followed at once by          *)
(* clearKeyEvent(input, 0) leaves c with no binding.                        *)
(***************************************************************************)
C5_BindThenClear ==
    \A c \in Registered, k \in Bindings :
       \A d \in (IF IsAxis(k) THEN {-1, 1} ELSE {0}) :
          LET deviceType == IF IsAxis(k) THEN "gamepad" ELSE ButtonDeviceType(k)
              bound == bindKey(Manager, c, k, keyBindings[c].type,
                               keyBindings[c].callback, deviceType, d)
          IN clearKeyEvent(bound, k, 0).keyBindings[c].binding = None

(***************************************************************************)
(* C6.  A held control bound to a button is set to 1 (10 tenths) by the     *)
(* press of that button and to 0 by its release, and no press or release of *)
(* any other button, one it was bound to before included, changes its       *)
(* value.                                                                   *)
(***************************************************************************)
C6_ValueFollowsBinding ==
    \A c \in Registered :
       keyBindings[c].type = KEYMAP_HELD_KEY =>
          \A key \in Buttons :
             IF keyBindings[c].binding = key
             THEN /\ buttonDown(Manager, key).keys[c] = 10
                  /\ buttonUp(Manager, key).keys[c] = 0
             ELSE /\ buttonDown(Manager, key).keys[c] = keys[c]
                  /\ buttonUp(Manager, key).keys[c] = keys[c]

\* "left" was rebound from its default to the mouse button, which is down,
\* and the button it had by default is free or belongs to another control.
C6_Witness ==
    /\ Running
    /\ rebinds > 0
    /\ keyBindings["left"].binding = "mouse1"
    /\ keys["left"] = 10
    /\ events.down["space"] # "left"

(***************************************************************************)
(* C7.  With no dialogue up, for an axis entry whose negative side names    *)
(* held control L and whose positive side names held control R, each with   *)
(* its device in use, update on a reading v of the axis leaves              *)
(*   L = |v| (v when negativeValuesForNegativeAxes) and R = 0               *)
(*       if v < 0 and |v| is at or above the dead zone,                     *)
(*   R = v and L = 0  if v > 0 and v is at or above the dead zone,          *)
(*   L = R = 0        if |v| is below the dead zone.                        *)
(***************************************************************************)
AxisRange == (-10)..10

C7_IdleAxisUpdate ==
    (phase = "run" /\ ~bindingDialogueVisible) =>
       \A i \in 1..Len(axesInUse) :
          LET axisData == axesInUse[i]
              L == axisData.keyDescriptionNegative
              R == axisData.keyDescriptionPositive
          IN ( /\ L # None /\ R # None
               /\ keyBindings[L].type = KEYMAP_HELD_KEY
               /\ keyBindings[R].type = KEYMAP_HELD_KEY
               /\ axisData.deviceNegative # None
               /\ axisData.devicePositive # None )
             => \A v \in AxisRange :
                  LET after == update(Sampling(Manager,
                                   [a \in Axes |-> IF a = axisData.axis THEN v ELSE 0]))
                  IN /\ (v < 0 /\ Abs(v) >= axisData.deadZone) =>
                          /\ after.keys[L] = IF negativeValuesForNegativeAxes
                                              THEN v ELSE Abs(v)
                          /\ after.keys[R] = 0
                     /\ (v > 0 /\ v >= axisData.deadZone) =>
                          /\ after.keys[R] = v
                          /\ after.keys[L] = 0
                     /\ Abs(v) < axisData.deadZone =>
                          /\ after.keys[L] = 0
                          /\ after.keys[R] = 0

\* The stick is held to the left: update has given "left" the reading and
\* "right" 0, both being bound to the two sides of the axis of a device in
\* use.
C7_Witness ==
    /\ phase = "run" /\ ~bindingDialogueVisible
    /\ \E i \in 1..Len(axesInUse) :
          /\ axesInUse[i].keyDescriptionNegative = "left"
          /\ axesInUse[i].keyDescriptionPositive = "right"
          /\ axesInUse[i].deviceNegative # None
          /\ axesInUse[i].devicePositive # None
    /\ keys["left"] = (IF negativeValuesForNegativeAxes THEN -8 ELSE 8)
    /\ keys["right"] = 0

(***************************************************************************)
(* C8.  In every state an axis has an entry in axesInUse exactly when a     *)
(* control is bound to one of its two directions.                           *)
(***************************************************************************)
DirectionBound(kb, axis, d) ==
    \E c \in DOMAIN kb : kb[c].binding = AxisName(axis) /\ kb[c].axisDirection = d

C8_EntryIffBound ==
    \A axis \in Axes :
       (\E i \in 1..Len(axesInUse) : axesInUse[i].axis = axis)
          <=> (DirectionBound(keyBindings, axis, 1)
               \/ DirectionBound(keyBindings, axis, -1))

(***************************************************************************)
(* C9.  In every state, two distinct controls bound to the same input (for  *)
(* an axis: the same axis with the same axis direction) have group masks    *)
(* with no bit in common.                                                   *)
(***************************************************************************)
C9_SharedOnlyAcrossGroups ==
    \A A \in Registered, B \in Registered :
       ( /\ A # B
         /\ keyBindings[A].binding # None
         /\ keyBindings[A].binding = keyBindings[B].binding
         /\ IsAxis(keyBindings[A].binding) =>
               keyBindings[A].axisDirection = keyBindings[B].axisDirection )
       => ~Overlap(keyBindings, A, B)

(***************************************************************************)
(* C10.  In every state, for each axis and each direction +1 and -1, at     *)
(* most one control has the axis as its binding with that direction, and    *)
(* the entries of the axis name at most one control for that direction.     *)
(***************************************************************************)
EntryNames(axes, axis, d) ==
    {IF d = 1 THEN axes[i].keyDescriptionPositive
              ELSE axes[i].keyDescriptionNegative :
        i \in {j \in 1..Len(axes) : axes[j].axis = axis}} \ {None}

C10_OneControlPerDirection ==
    \A axis \in Axes, d \in {-1, 1} :
       /\ Cardinality({c \in Registered :
                         /\ keyBindings[c].binding = AxisName(axis)
                         /\ keyBindings[c].axisDirection = d}) <= 1
       /\ Cardinality(EntryNames(axesInUse, axis, d)) <= 1

\* Both directions of the axis are taken, each by its own control, after a
\* rebind gave one of them its direction.
C10_Witness ==
    /\ phase = "run" /\ rebinds > 0
    /\ keyBindings["jump"].binding = "Axis.left_x"
    /\ keyBindings["jump"].axisDirection \in {-1, 1}
    /\ \E c \in Registered \ {"jump"} :
          /\ keyBindings[c].binding = "Axis.left_x"
          /\ keyBindings[c].axisDirection = -keyBindings["jump"].axisDirection


(***************************************************************************)
(* C11.  Registering or binding a control raises at once when its binding  *)
(* kind needs a callback that is missing: pressed or released with no      *)
(* callback; pressed-and-released with no callback, with a list of fewer   *)
(* than two, or with a pair one of whose callbacks is missing.  Kind held  *)
(* never raises.  In every other case nothing is raised.  Checked for      *)
(* addKey of the next control while the application registers, and for     *)
(* the bindKey that commits a captured input during a rebind, for every    *)
(* kind and every form of callback.                                        *)
(***************************************************************************)
BindingKinds == {KEYMAP_EVENT_RELEASED, KEYMAP_EVENT_PRESSED,
                 KEYMAP_EVENT_PRESSED_AND_RELEASED, KEYMAP_HELD_KEY}
CallbackForms == {NoCallback, Callable, CallbackList(<<>>),
                  CallbackList(<<"callable">>),
                  CallbackList(<<None, "callable">>),
                  CallbackList(<<"callable", None>>),
                  CallbackList(<<None, None>>),
                  CallbackList(<<"callable", "callable">>)}
CallbackRequiredAndMissing(kind, callback) ==
    \/ /\ kind \in {KEYMAP_EVENT_PRESSED, KEYMAP_EVENT_RELEASED}
       /\ callback = NoCallback
    \/ /\ kind = KEYMAP_EVENT_PRESSED_AND_RELEASED
       /\ \/ callback = NoCallback
          \/ /\ callback.isList
             /\ \/ Len(callback.items) < 2
                \/ callback.items[1] = None
                \/ callback.items[2] = None
RaisesExactlyWhenMissing(m, kind, callback) ==
    m.raised = IF CallbackRequiredAndMissing(kind, callback)
               THEN "Exception" ELSE None
C11_CallbackMissingRaises ==
    /\ (phase = "register" /\ raised = None
            /\ Len(keyOrder) < Len(KeyDescriptions)) =>
          LET description == KeyDescriptions[Len(keyOrder) + 1]
          IN \A kind \in BindingKinds, callback \in CallbackForms,
                default \in DefaultChoices(description) :
                RaisesExactlyWhenMissing(
                    addKey(Manager, description, default[1],
                           IF IsAxis(default[1]) THEN "gamepad"
                           ELSE ButtonDeviceType(default[1]),
                           kind, callback, default[2], 1),
                    kind, callback)
    /\ (Running /\ AwaitingRebind /\ lastKeyInterception \in Bindings) =>
          \A kind \in BindingKinds, callback \in CallbackForms :
             /\ RaisesExactlyWhenMissing(
                    bindKey(Manager, keyBeingBound, lastKeyInterception,
                            kind, callback, lastKeyInterceptionDeviceType,
                            lastKeyInterceptionValue),
                    kind, callback)
    /\ raised = "Exception" =>
          \E c \in Registered :
             CallbackRequiredAndMissing(keyBindings[c].type,
                                        keyBindings[c].callback)

\* A registration that raised: "jump", pressed-and-released, was given a
\* pair whose second callback is missing.
C11_Witness ==
    /\ raised = "Exception"
    /\ "jump" \in Registered
    /\ keyBindings["jump"].type = KEYMAP_EVENT_PRESSED_AND_RELEASED
    /\ keyBindings["jump"].callback = CallbackList(<<"callable", None>>)
    /\ keyOrder = <<"left", "right">>

(***************************************************************************)
(* C12.  A load whose load callback raises IOError, in setup or in         *)
(* loadProfile, raises nothing to its caller and leaves every control's    *)
(* binding, device type and axis direction and every axis entry as they    *)
(* were; the error dialogue shows the error if the file exists, and for a  *)
(* file that does not exist nothing is shown.                              *)
(***************************************************************************)
\* The files a load may be given: none, a default profile, or the mapping
\* as it would be saved now.
LoadSources == {NoFile, <<PartialProfile>>, <<ForeignProfile>>,
                <<SaveData(Manager)>>}
FailedLoadLeavesAll ==
    raised = None =>
      \A cb \in {"files", "dummy"}, data \in LoadSources :
         LET m == [Manager EXCEPT !.callbacks = cb]
             loaded == loadKeyMapping(m, data)
         IN LoadFails(m, data) =>
              /\ loaded.raised = None
              /\ loaded.keyBindings = keyBindings
              /\ loaded.axesInUse = axesInUse
              /\ loaded.errorText = IF data = NoFile THEN errorText
                                    ELSE DummyWarning
\* A profile load made with SaveLoadDummy's callbacks: its file exists.
FailedProfileLoad ==
    (raised = None /\ callbacks = "dummy" /\ loads' = loads + 1) =>
        /\ raised' = None
        /\ keyBindings' = keyBindings
        /\ axesInUse' = axesInUse
        /\ errorText' = DummyWarning
\* setup when the live binding file does not exist.
FailedSetupLoad ==
    (raised = None /\ phase = "register" /\ phase' = "run"
        /\ callbacks # "none" /\ bindingFileData = NoFile) =>
        /\ raised' = None
        /\ keyBindings' = keyBindings
        /\ axesInUse' = axesInUse
        /\ (callbacks = "files" => errorText' = None)
C12_FailedLoadLeavesBindings ==
    /\ []FailedLoadLeavesAll
    /\ [][FailedProfileLoad /\ FailedSetupLoad]_vars

\* A default profile was loaded with SaveLoadDummy's callbacks: the error
\* is shown, and the axis bindings and their entry are the registered ones.
C12_Witness ==
    /\ callbacks = "dummy" /\ loads = 1 /\ raised = None
    /\ errorText = DummyWarning
    /\ keyBindings["left"].binding = "Axis.left_x"
    /\ keyBindings["right"].binding = "Axis.left_x"
    /\ Len(axesInUse) = 1
    /\ axesInUse[1].keyDescriptionNegative = "left"
    /\ axesInUse[1].keyDescriptionPositive = "right"

(***************************************************************************)
(* C13.  A save that fails, because the save callback raises IOError or    *)
(* because there is no save callback, is not passed off as a success: the  *)
(* error dialogue shows the error's message, saveKeyMapping raises         *)
(* nothing, and no control's binding is changed by it.                     *)
(***************************************************************************)
\* Whether the save fails, and with which message.
SaveFails(m) ==
    m.callbacks = "none" \/ (m.callbacks = "dummy" /\ m.firstCallback)
SaveError(m) == IF m.callbacks = "none" THEN NoSaveCallback ELSE DummyWarning
FailedSaveIsShown ==
    raised = None =>
      \A cb \in CallbackChoices, first \in BOOLEAN,
         file \in {"live", "profile"} :
         LET m == [Manager EXCEPT !.callbacks = cb, !.firstCallback = first,
                                  !.bindingFile = file]
             saved == saveKeyMapping(m)
         IN SaveFails(m) =>
              /\ saved.errorText = SaveError(m)
              /\ saved.raised = None
              /\ saved.keyBindings = keyBindings
              /\ saved.axesInUse = axesInUse
              /\ saved.bindingFileData = bindingFileData
              /\ saved.profileData = profileData
\* The handlers that save: setup, the commit of a rebind, saveNewProfile
\* and loadProfile.
SavingStep ==
    \/ phase = "register" /\ phase' = "run"
    \/ keyBeingBound # None /\ keyBeingBound' = None
    \/ saves' = saves + 1
    \/ loads' = loads + 1
FailedSaveStep ==
    (raised = None /\ raised' = None /\ SavingStep /\ SaveFails(Manager)) =>
        /\ errorText' = SaveError(Manager)
        /\ bindingFileData' = bindingFileData
        /\ profileData' = profileData
        /\ (saves' = saves + 1 =>
               BindingState(keyBindings') = BindingState(keyBindings))
C13_FailedSaveShown ==
    /\ []FailedSaveIsShown
    /\ [][FailedSaveStep]_vars

\* A rebind was committed with no save callback: the new binding is in
\* force, the error dialogue says that nothing was saved, no file exists.
C13_Witness ==
    /\ callbacks = "none" /\ rebinds = 1 /\ Idle /\ raised = None
    /\ errorText = NoSaveCallback
    /\ keyBindings["jump"].binding = "Axis.left_x"
    /\ bindingFileData = NoFile

(***************************************************************************)
(* C14.  Every rebind that is committed, directly or by overwriting in a   *)
(* conflict, calls the save callback exactly once in the handler that      *)
(* commits it, with the live binding file as destination and with key      *)
(* records equal to the (control, binding, device type, axis direction) of *)
(* every registered control after the commit.                              *)
(***************************************************************************)
\* The handler has committed a rebind: finishKeyRelease has run.
RebindCommitted == keyBeingBound # None /\ keyBeingBound' = None
SavedOnceAfterCommit ==
    /\ Len(saveCalls') = 1
    /\ saveCalls'[1].destination = "live"
    /\ saveCalls'[1].keys =
          [i \in 1..Len(keyOrder) |->
             <<keyOrder[i], keyBindings'[keyOrder[i]].binding,
               keyBindings'[keyOrder[i]].deviceType,
               keyBindings'[keyOrder[i]].axisDirection>>]
\* As claimed, whatever callbacks the manager was constructed with.
C14_CommitSavedOnce ==
    [][(raised = None /\ RebindCommitted) => SavedOnceAfterCommit]_vars
\* For a manager that was given a save callback.
C14_CommitSavedOnceGivenCallback ==
    [][(raised = None /\ RebindCommitted /\ callbacks # "none")
          => SavedOnceAfterCommit]_vars

\* A rebind of "right" was just committed by overwriting "jump", and the
\* one call of the save callback names the live file and the new bindings.
C14_Witness ==
    /\ raised = None /\ rebinds = 1 /\ loads = 0 /\ keyBeingBound = None
    /\ keyBindings["right"].binding = "mouse1"
    /\ keyBindings["jump"].binding = None
    /\ Len(saveCalls) = 1
    /\ saveCalls[1].destination = "live"
    /\ saveCalls[1].keys[2] = <<"right", "mouse1", "mouse", 0>>
    /\ saveCalls[1].keys[3] = <<"jump", None, None, 0>>

(***************************************************************************)
(* C15.  After a profile load, every registered control that has no record *)
(* in the loaded data has the binding, device type and axis direction it   *)
(* had before the load, whatever the records bind the other controls to.   *)
(***************************************************************************)
\* The files loadProfile may be given, and the controls a file has a record
\* for.
ProfileFiles == {profileData} \cup {<<profile>> : profile \in DefaultProfiles}
RecordedControls(data) == {data[1].keys[i][1] : i \in 1..Len(data[1].keys)}
\* The step is loadProfile of the file, run to its end.
LoadedProfile(data) ==
    /\ raised = None /\ raised' = None /\ callbacks = "files"
    /\ loads' = loads + 1
    /\ data # NoFile
    /\ keyBindings' = loadProfile(Manager, data).keyBindings
C15_AbsentControlsKept ==
    [][\A data \in ProfileFiles :
          LoadedProfile(data) =>
             \A c \in Registered \ RecordedControls(data) :
                BindingState(keyBindings')[c] = BindingState(keyBindings)[c]
      ]_vars

(***************************************************************************)
(* C16.  If the loaded data holds a record whose control is not            *)
(* registered, the load raises an error that reaches the caller, and when  *)
(* it is raised no record of the data has been applied to any control.     *)
(***************************************************************************)
HasUnknownControl(data) ==
    data # NoFile /\ RecordedControls(data) \ Registered # {}
\* loadKeyMapping and loadProfile as functions of the state, for files read
\* by a load callback that succeeds.
UnknownControlRaises ==
    (Running /\ NoDialogue) =>
      \A data \in LoadSources \cup {profileData} :
         LET m == [Manager EXCEPT !.callbacks = "files"]
             loaded == loadKeyMapping(m, data)
             profile == loadProfile(m, data)
         IN /\ HasUnknownControl(data) =>
                 /\ loaded = [m EXCEPT !.raised = "KeyError"]
                 /\ profile.raised = "KeyError"
                 /\ profile.keyBindings = keyBindings
                 /\ profile.axesInUse = axesInUse
                 /\ profile.events = events
                 /\ profile.saveCalls = <<>>
            /\ (data # NoFile /\ ~HasUnknownControl(data)) =>
                 loaded.raised = None
\* loadProfile in the run: if it ends in the error, nothing has changed.
UnknownControlStep ==
    (raised = None /\ loads' = loads + 1 /\ raised' # None) =>
        /\ raised' = "KeyError"
        /\ keyBindings' = keyBindings
        /\ axesInUse' = axesInUse
        /\ bindingFileData' = bindingFileData
C16_UnknownControlFailsLoudly ==
    /\ []UnknownControlRaises
    /\ [][UnknownControlStep]_vars

\* The profile with a record for "crouch" was loaded after a rebind: the run
\* has ended in the error, and "jump", whose record comes first in that
\* profile, is still bound to the input the rebind gave it.
C16_Witness ==
    /\ raised = "KeyError" /\ loads = 1 /\ rebinds = 1
    /\ ~bindingDialogueVisible /\ ~conflictDialogueShown
    /\ keyBindings["jump"].binding = "Axis.left_x"
    /\ keyBindings["jump"].axisDirection = 1

(***************************************************************************)
(* C17.  With axis readings within [-1, 1], in every reachable state each  *)
(* control's live value lies in [-1, 1], and the live value of a control   *)
(* that is not of the held kind is 0 or 1, with and without negative       *)
(* values for negative axes.  (Values are in tenths.)                      *)
(***************************************************************************)
C17_LiveValuesInRange ==
    \A c \in Registered :
       /\ keys[c] \in AxisRange
       /\ keyBindings[c].type # KEYMAP_HELD_KEY => keys[c] \in {0, 10}

(***************************************************************************)
(* C18.  Loading a profile that has one record for every registered        *)
(* control, no two of them for the same button or the same direction of an *)
(* axis, leaves every control's (binding, device type, axis direction)     *)
(* equal to its record, whatever the bindings before the load.             *)
(***************************************************************************)
\* The file has exactly one record for each registered control.
FullProfile(data) ==
    /\ RecordedControls(data) = Registered
    /\ Len(data[1].keys) = Cardinality(Registered)
\* No two records claim the same button or the same direction of an axis.
NonColliding(data) ==
    \A i, j \in 1..Len(data[1].keys) :
       (i # j /\ data[1].keys[i][2] # None
            /\ data[1].keys[i][2] = data[1].keys[j][2]) =>
          /\ IsAxis(data[1].keys[i][2])
          /\ data[1].keys[i][4] # data[1].keys[j][4]
C18_FullProfileRestored ==
    [][\A data \in ProfileFiles :
          (LoadedProfile(data) /\ FullProfile(data) /\ NonColliding(data)) =>
             \A i \in 1..Len(data[1].keys) :
                BindingState(keyBindings')[data[1].keys[i][1]]
                   = <<data[1].keys[i][2], data[1].keys[i][3],
                       data[1].keys[i][4]>>
      ]_vars

(***************************************************************************)
(* C19.  In every reachable state after setup the binding table and the    *)
(* axis table agree: a control has the axis binding "Axis.X" if and only   *)
(* if the entry of X names the control on the side of the control's axis   *)
(* direction, and that direction is +1 or -1, never 0.                     *)
(***************************************************************************)
C19_TablesAgree ==
    Running =>
      \A c \in Registered, axis \in Axes :
         /\ keyBindings[c].binding = AxisName(axis) =>
               /\ keyBindings[c].axisDirection \in {-1, 1}
               /\ c \in EntryNames(axesInUse, axis,
                                   keyBindings[c].axisDirection)
         /\ \A d \in {-1, 1} :
               c \in EntryNames(axesInUse, axis, d) =>
                  /\ keyBindings[c].binding = AxisName(axis)
                  /\ keyBindings[c].axisDirection = d

(***************************************************************************)
(* C20.  A device that is connected or disconnected in any state of the    *)
(* manager, idle, awaiting a rebind or with a conflict pending, is handled *)
(* without an error being raised and without a change to any control's     *)
(* binding, and the rebind in progress is still in progress afterwards.    *)
(***************************************************************************)
DeviceNotified == attached' # attached
C20_HotPlugSafe ==
    [][(raised = None /\ DeviceNotified) =>
          /\ raised' = None
          /\ BindingState(keyBindings') = BindingState(keyBindings)
          /\ keyBeingBound' = keyBeingBound
          /\ bindingDialogueVisible' = bindingDialogueVisible
          /\ conflictDialogueShown' = conflictDialogueShown
      ]_vars

(***************************************************************************)
(* C21.  The rebind state of the manager changes only from Idle to         *)
(* AwaitingRebind, from AwaitingRebind to Idle or to ConflictPending, and  *)
(* from ConflictPending to Idle or to AwaitingRebind.  In every Idle state *)
(* no control is recorded as being bound and no conflict is recorded; in   *)
(* every ConflictPending state the control being bound and the conflicting *)
(* control are both recorded and differ.                                   *)
(***************************************************************************)
\* The rebind state as the dialogues show it.
RebindState ==
    CASE conflictDialogueShown -> "ConflictPending"
      [] ~conflictDialogueShown /\ bindingDialogueVisible -> "AwaitingRebind"
      [] OTHER -> "Idle"
RebindTransitions ==
    {<<"Idle", "AwaitingRebind">>, <<"AwaitingRebind", "Idle">>,
     <<"AwaitingRebind", "ConflictPending">>, <<"ConflictPending", "Idle">>,
     <<"ConflictPending", "AwaitingRebind">>}
RebindStateRecords ==
    /\ RebindState = "Idle" => keyBeingBound = None /\ currentConflict = None
    /\ RebindState = "ConflictPending" =>
          /\ keyBeingBound # None
          /\ currentConflict # None
          /\ keyBeingBound # currentConflict
C22_DeadZonesRestored ==
    [][\A data \in ProfileFiles :
          LoadedProfile(data) =>
             \A i \in 1..Len(axesInUse'), j \in 1..Len(data[1].axes) :
                axesInUse'[i].axis = data[1].axes[j][1] =>
                   axesInUse'[i].deadZone = data[1].axes[j][2]
      ]_vars

(***************************************************************************)
(* C23.  When registering or binding a control raises the error of a       *)
(* missing callback, nothing is left behind: no control has been added to  *)
(* the state table or to the binding table, and no other control's         *)
(* binding, device type, axis entry or event subscription differs from     *)
(* before the call.                                                        *)
(***************************************************************************)
C23_NoPartialRegistration ==
    [][(raised = None /\ raised' = "Exception") =>
          /\ DOMAIN keys' = DOMAIN keys
          /\ DOMAIN keyBindings' = DOMAIN keyBindings
          /\ \A c \in Registered :
                BindingState(keyBindings')[c] = BindingState(keyBindings)[c]
          /\ axesInUse' = axesInUse
          /\ events' = events
      ]_vars

(***************************************************************************)
(* C24.  The temporary raw-input listeners (the generic interception       *)
(* events of the main thrower and the per-device throwers) are active      *)
(* only while a rebind is awaited: none is active after a cancel, after a  *)
(* commit or on entry to the conflict question; each device has at most    *)
(* one listener; and no raw input delivered while idle or while a conflict *)
(* is pending changes the candidate or any binding.                        *)
(***************************************************************************)
ListenersOff ==
    ~buttonThrowerOn /\ dataNPList = <<>> /\ deviceButtonThrowers = {}

OneListenerPerDevice ==
    \A i, j \in 1..Len(dataNPList) : dataNPList[i] = dataNPList[j] => i = j

\* What a raw input (a button going down or up, a polled axis sample) makes
\* of the manager.
RawInputs ==
    {buttonDown(Manager, key) : key \in {k \in Buttons : ButtonAvailable(Manager, k)}}
    \cup {buttonUp(Manager, key) : key \in {k \in Buttons : ButtonAvailable(Manager, k)}}
    \cup {update(Sampling(Manager, reading)) : reading \in Readings}

RawInputInert ==
    \A m \in RawInputs :
       /\ m.lastKeyInterception = lastKeyInterception
       /\ BindingState(m.keyBindings) = BindingState(keyBindings)
       /\ m.raised = None

C24_ListenersOnlyWhileAwaiting ==
    Running =>
       /\ OneListenerPerDevice
       /\ RebindState # "AwaitingRebind" => ListenersOff /\ RawInputInert

\* A conflict question is up while a device is attached and the control
\* being rebound is known: the listeners that were on have been cleared.
C24_Witness ==
    /\ Running
    /\ conflictDialogueShown
    /\ attached # {}
    /\ ListenersOff
    /\ \E key \in Buttons : ButtonAvailable(Manager, key) /\ events.down[key] # None

(***************************************************************************)
(* C25.  The candidate that is committed, or checked for a conflict, on    *)
(* release is the first qualifying press since the request or since the    *)
(* last conflict cancel: once a candidate is recorded, a later press does  *)
(* not replace it, and a commit binds that candidate.                      *)
(***************************************************************************)
C25_FirstPressKept ==
    [][(Running /\ RebindState = "AwaitingRebind" /\ lastKeyInterception # None) =>
          \/ lastKeyInterception' = lastKeyInterception
          \/ /\ RebindState' = "Idle"
             /\ \/ keyBeingBound' # None
                \/ keyBindings'[keyBeingBound].binding = lastKeyInterception
          \/ raised' # None
      ]_vars

(***************************************************************************)
(* C26.  When a device is disconnected while a rebind is awaiting input,   *)
(* its axis-sample baseline is discarded together with its listener: no    *)
(* baseline entry and no listener of the removed device remains.           *)
(***************************************************************************)
C26_BaselineDiscarded ==
    [][(Running /\ RebindState = "AwaitingRebind") =>
          \A device \in attached \ attached' :
             /\ \A i \in 1..Len(dataNPList') : dataNPList'[i] # device
             /\ device \notin DOMAIN deviceAxisTestValues'
      ]_vars

(***************************************************************************)
(* C27.  For a binary (non-held) control bound to an axis direction, an    *)
(* idle per-frame update fires the pressed callback exactly once when the  *)
(* magnitude rises above 0.5 and the released callback exactly once when   *)
(* it falls below 0.5; no callback fires while the magnitude stays on one  *)
(* side of the threshold, and no released callback fires without a        *)
(* preceding rise.  A rise is a reading above 0.5 after an idle update     *)
(* that did not read the control's direction above 0.5, a fall a reading   *)
(* below 0.5 after one that did.                                           *)
(***************************************************************************)
Count(calls, call) == Cardinality({i \in 1..Len(calls) : calls[i] = call})

C27_EdgeCallbacks ==
    (Running /\ ~bindingDialogueVisible) =>
       \A reading \in Readings, c \in BinaryOnAxis :
          LET fired == update(Sampling(Manager, reading)).fired
              rise == c \notin risen /\ Magnitude(c, reading) > HalfThreshold
              fall == c \in risen /\ Magnitude(c, reading) < HalfThreshold
          IN /\ Count(fired, <<c, KEYMAP_EVENT_PRESSED>>) = IF rise THEN 1 ELSE 0
             /\ Count(fired, <<c, KEYMAP_EVENT_RELEASED>>) = IF fall THEN 1 ELSE 0

\* A binary control on an axis direction is taken as pressed after a rise,
\* while no dialogue is up: the next update can see the fall.
C27_Witness ==
    /\ Running
    /\ ~bindingDialogueVisible
    /\ \E c \in BinaryOnAxis : keys[c] # 0

(***************************************************************************)
(* C28.  A control whose binding is a button (not an axis) has axis        *)
(* direction 0 and the device type of that input: mouse for a mouse        *)
(* button, keyboard for a key, the device's class for a device button.     *)
(* This holds in every reachable state, also when the button was captured  *)
(* after an earlier candidate of the same rebind was discarded by a        *)
(* conflict cancel.                                                        *)
(***************************************************************************)
C28_ButtonBindingShape ==
    \A c \in Registered :
       (keyBindings[c].binding # None /\ ~IsAxis(keyBindings[c].binding)) =>
          /\ keyBindings[c].axisDirection = 0
          /\ keyBindings[c].deviceType = ButtonDeviceType(keyBindings[c].binding)

(***************************************************************************)
(* C29.  A held control that has no binding has live value 0: when its     *)
(* binding is cleared or replaced while the old input is down, the live    *)
(* value does not stay at a non-zero value.                                *)
(***************************************************************************)
C29_UnboundHeldIsZero ==
    \A c \in Registered :
       (keyBindings[c].type = KEYMAP_HELD_KEY /\ keyBindings[c].binding = None) =>
          keys[c] = 0

(***************************************************************************)
(* C30.  After destroy() no event subscription made by the manager remains *)
(* on the event object: neither the press and release events of the bound  *)
(* inputs, nor the interception events, nor the device connect and         *)
(* disconnect events.                                                      *)
(***************************************************************************)
C30_NoSubscriptionAfterDestroy ==
    phase = "destroyed" =>
       /\ accepted = {}
       /\ \A k \in DOMAIN events.down : events.down[k] = None
       /\ \A k \in DOMAIN events.up : events.up[k] = None

====
